---- MODULE Spec2Model ----
(***************************************************************************)
(* knap: the 0/1 knapsack solved exactly (KnapsackIterator, dynamic        *)
(* programming, src/src/knapsack.rs) and approximately                     *)
(* (GreedyKnapsackIterator, value/weight ratio, src/src/greedy.rs).  Both  *)
(* hand their selection out one item per call of next().                   *)
(* The copies of the exact solver in src/src/optimal.rs and                 *)
(* src/src/main.rs, the greedy solver of src/src/optimal.rs and the        *)
(* adapters of src/src/traits.rs are modelled as operators and compared    *)
(* with the two solvers above.                                             *)
(*                                                                         *)
(* An item is a record [weight, value] of two usize.  The solvers store    *)
(* clones of the input items; a clone is represented by the 1-based        *)
(* position of the input item it was cloned from (the code's item_idx + 1),*)
(* so that equal items at different positions stay apart.                  *)
(*                                                                         *)
(* Arithmetic is that of the naturals: the inputs below keep every sum of  *)
(* values and weights far inside usize, and every usize -> f64 conversion  *)
(* and every quotient exactly comparable (see partial_cmp).  The width of  *)
(* usize is modelled in SpecWord, where a usize has UsizeBits bits, every  *)
(* sum is reduced modulo 2^UsizeBits, and an overflowing sum aborts the    *)
(* program when the build checks overflow.                                 *)
(***************************************************************************)
EXTENDS Integers, Sequences, FiniteSets

\* Bounds of the inputs and of the number of pulls after the end.
MaxItems == 2
MaxWeight == 2
MaxValue == 2
MaxCapacity == 3
MaxEndPulls == 2

\* The width of a usize in SpecWord, scaled down from the target's 32 or 64.
UsizeBits == 2

VARIABLES
    items,                   \* KnapsackIterator.items
    capacity,                \* KnapsackIterator.capacity
    optimal_solution_items,  \* KnapsackIterator.optimal_solution_items
    current_index,           \* KnapsackIterator.current_index
    computed,                \* KnapsackIterator.computed
    solution_items,          \* GreedyKnapsackIterator.solution_items
    greedy_current_index,    \* GreedyKnapsackIterator.current_index
    knapsack_pulled,         \* history: what each next() of the exact solver returned
    greedy_pulled,           \* history: what each next() of the greedy solver returned
    dp_runs,                 \* history: how often the DP table was built
    visit_order,             \* history: the input positions in the order of the
                             \* sorted items_with_meta of calculate_greedy_items
    fault                    \* "none", "wrapped" (a sum overflowed silently) or
                             \* "panic" (the program aborted)

vars == <<items, capacity, optimal_solution_items, current_index, computed,
          solution_items, greedy_current_index, knapsack_pulled, greedy_pulled,
          dp_runs, visit_order, fault>>

\* ------------------------------------------------------------------ items

Item == [weight : 0..MaxWeight, value : 0..MaxValue]

Inputs == UNION {[1..n -> Item] : n \in 0..MaxItems}

\* Option<T>: None, or Some(x).
None == <<>>

Some(x) == <<x>>

\* reverse that leaves the vector as it is.
reverse_identity(s) == s

\* Vec::reverse
RECURSIVE reverse(_)
reverse(s) ==
    IF s = <<>> THEN <<>> ELSE Append(reverse(Tail(s)), Head(s))

\* usize::max
max(a, b) == IF a >= b THEN a ELSE b

\* usize::MAX
USIZE_MAX == 2 ^ UsizeBits - 1

\* ------------------------------------------------- exact solver: the table

\* dp_row with the fit test item_weight < w: an item never fills a budget
\* exactly.
dp_row_strict(its, cap, prev, i) ==
    LET item_weight == its[i].weight
        item_value == its[i].value
    IN  [w \in 0..cap |->
            LET value_without_item == prev[w]
            IN  IF item_weight < w
                THEN max(value_without_item, prev[w - item_weight] + item_value)
                ELSE value_without_item]

\* dp_row that takes every item that fits, without the max.
dp_row_always_takes(its, cap, prev, i) ==
    LET item_weight == its[i].weight
        item_value == its[i].value
    IN  [w \in 0..cap |->
            LET value_without_item == prev[w]
            IN  IF item_weight <= w
                THEN prev[w - item_weight] + item_value
                ELSE value_without_item]

\* dp_row that passes over items of weight 0.
dp_row_skips_weightless(its, cap, prev, i) ==
    LET item_weight == its[i].weight
        item_value == its[i].value
    IN  [w \in 0..cap |->
            LET value_without_item == prev[w]
            IN  IF item_weight > 0 /\ item_weight <= w
                THEN max(value_without_item, prev[w - item_weight] + item_value)
                ELSE value_without_item]

\* Row i of the table, a function of the budget w in 0..cap: row 0 is the
\* vec![0; capacity + 1] the table starts with, row i is filled from row i-1.
dp_row(its, cap, prev, i) ==
    LET item_weight == its[i].weight
        item_value == its[i].value
    IN  [w \in 0..cap |->
            LET value_without_item == prev[w]
            IN  IF item_weight <= w
                THEN max(value_without_item, prev[w - item_weight] + item_value)
                ELSE value_without_item]

\* The table after the fill loop: dp[i][w] for i in 0..n, w in 0..cap.
RECURSIVE fill_rows(_, _, _)
fill_rows(its, cap, i) ==
    IF i = 0
    THEN [r \in {0} |-> [w \in 0..cap |-> 0]]
    ELSE LET below == fill_rows(its, cap, i - 1)
             row == dp_row(its, cap, below[i - 1], i)
         IN  [r \in 0..i |-> IF r = i THEN row ELSE below[r]]

fill_dp(its, cap) == fill_rows(its, cap, Len(its))

\* reconstruct that takes an item whenever taking it explains dp[i][w], also
\* when leaving it out gives the same value.
RECURSIVE reconstruct_includes_on_tie(_, _, _, _, _)
reconstruct_includes_on_tie(its, dp, i, current_w, solution_items_temp) ==
    IF i = 0
    THEN solution_items_temp
    ELSE LET item_weight == its[i].weight
         IN  IF current_w >= item_weight
                  /\ dp[i][current_w] = dp[i - 1][current_w - item_weight] + its[i].value
             THEN reconstruct_includes_on_tie(its, dp, i - 1, current_w - item_weight,
                              Append(solution_items_temp, i))
             ELSE reconstruct_includes_on_tie(its, dp, i - 1, current_w,
                              solution_items_temp)

\* reconstruct that takes every item that fits, without looking at the table.
RECURSIVE reconstruct_fit_only(_, _, _, _, _)
reconstruct_fit_only(its, dp, i, current_w, solution_items_temp) ==
    IF i = 0
    THEN solution_items_temp
    ELSE LET item_weight == its[i].weight
         IN  IF current_w >= item_weight
             THEN reconstruct_fit_only(its, dp, i - 1, current_w - item_weight,
                              Append(solution_items_temp, i))
             ELSE reconstruct_fit_only(its, dp, i - 1, current_w,
                              solution_items_temp)

\* reconstruct that forgets current_w -= item_weight.
RECURSIVE reconstruct_keeps_budget(_, _, _, _, _)
reconstruct_keeps_budget(its, dp, i, current_w, solution_items_temp) ==
    IF i = 0
    THEN solution_items_temp
    ELSE LET item_weight == its[i].weight
         IN  IF current_w >= item_weight /\ dp[i][current_w] # dp[i - 1][current_w]
             THEN reconstruct_keeps_budget(its, dp, i - 1, current_w,
                              Append(solution_items_temp, i))
             ELSE reconstruct_keeps_budget(its, dp, i - 1, current_w,
                              solution_items_temp)

\* The backward walk for i in (1..=n).rev(): the state before row i is
\* (current_w, solution_items_temp); the result is solution_items_temp.
RECURSIVE reconstruct(_, _, _, _, _)
reconstruct(its, dp, i, current_w, solution_items_temp) ==
    IF i = 0
    THEN solution_items_temp
    ELSE LET item_weight == its[i].weight
         IN  IF current_w >= item_weight /\ dp[i][current_w] # dp[i - 1][current_w]
             THEN reconstruct(its, dp, i - 1, current_w - item_weight,
                              Append(solution_items_temp, i))
             ELSE reconstruct(its, dp, i - 1, current_w, solution_items_temp)

\* KnapsackIterator as a record of its fields (and the history counter).
KnapsackSelf ==
    [items |-> items, capacity |-> capacity,
     optimal_solution_items |-> optimal_solution_items,
     current_index |-> current_index, computed |-> computed,
     dp_runs |-> dp_runs]

\* compute_solution without the capacity == 0 short-circuit.
compute_solution_no_zero_capacity(self) ==
    IF self.computed
    THEN self
    ELSE LET n == Len(self.items)
         IN  IF n = 0
             THEN [self EXCEPT !.computed = TRUE]
             ELSE LET dp == fill_dp(self.items, self.capacity)
                      solution_items_temp ==
                          reconstruct(self.items, dp, n, self.capacity, <<>>)
                  IN  [self EXCEPT
                          !.optimal_solution_items = reverse(solution_items_temp),
                          !.computed = TRUE,
                          !.dp_runs = @ + 1]

\* compute_solution that forgets self.computed = true after the walk.
compute_solution_flag_forgotten(self) ==
    IF self.computed
    THEN self
    ELSE LET n == Len(self.items)
         IN  IF n = 0 \/ self.capacity = 0
             THEN [self EXCEPT !.computed = TRUE]
             ELSE LET dp == fill_dp(self.items, self.capacity)
                      solution_items_temp ==
                          reconstruct(self.items, dp, n, self.capacity, <<>>)
                  IN  [self EXCEPT
                          !.optimal_solution_items = reverse(solution_items_temp),
                          !.dp_runs = @ + 1]

compute_solution(self) ==
    IF self.computed
    THEN self
    ELSE LET n == Len(self.items)
         IN  IF n = 0 \/ self.capacity = 0
             THEN [self EXCEPT !.computed = TRUE]
             ELSE LET dp == fill_dp(self.items, self.capacity)
                      solution_items_temp ==
                          reconstruct(self.items, dp, n, self.capacity, <<>>)
                  IN  [self EXCEPT
                          !.optimal_solution_items = reverse(solution_items_temp),
                          !.computed = TRUE,
                          !.dp_runs = @ + 1]

\* next that starts over once the end is reached.
knapsack_next_wraps(self) ==
    LET s == IF ~self.computed THEN compute_solution(self) ELSE self
    IN  IF s.current_index < Len(s.optimal_solution_items)
        THEN [self |-> [s EXCEPT !.current_index = @ + 1],
              item |-> Some(s.optimal_solution_items[s.current_index + 1])]
        ELSE [self |-> [s EXCEPT !.current_index = 0], item |-> None]

\* next that moves the cursor on every call, also at the end.
knapsack_next_always_advances(self) ==
    LET s == IF ~self.computed THEN compute_solution(self) ELSE self
    IN  IF s.current_index < Len(s.optimal_solution_items)
        THEN [self |-> [s EXCEPT !.current_index = @ + 1],
              item |-> Some(s.optimal_solution_items[s.current_index + 1])]
        ELSE [self |-> [s EXCEPT !.current_index = @ + 1], item |-> None]

\* Iterator::next of KnapsackIterator: the solver after the call, and the
\* Option it returns.
knapsack_next(self) ==
    LET s == IF ~self.computed THEN compute_solution(self) ELSE self
    IN  IF s.current_index < Len(s.optimal_solution_items)
        THEN [self |-> [s EXCEPT !.current_index = @ + 1],
              item |-> Some(s.optimal_solution_items[s.current_index + 1])]
        ELSE [self |-> s, item |-> None]

\* ------------------------------------------------ greedy solver: ranking

\* Ordering, as the strings "Less", "Equal", "Greater".
cmp(a, b) == IF a < b THEN "Less" ELSE IF a = b THEN "Equal" ELSE "Greater"

\* An f64 ratio is kept as a fraction [num, den] with den > 0.  f64::MAX is
\* above every quotient of two usize; here it is the first number above every
\* quotient the inputs can form.
F64_MAX == max(MaxValue, USIZE_MAX) + 1

f64(n) == [num |-> n, den |-> 1]

\* value as f64 / weight as f64, weight > 0
f64_div(value, weight) == [num |-> value, den |-> weight]

\* f64 == f64
f64_eq(x, y) == x.num * y.den = y.num * x.den

\* f64::partial_cmp.  No ratio is NaN, so the result is always Some(ordering)
\* and unwrap_or(Equal) never substitutes.  The inputs are small enough for
\* two quotients to compare as the fractions do.
partial_cmp(x, y) == cmp(x.num * y.den, y.num * x.den)

\* meta that gives every item of weight 0 the ratio 0.0, whatever its value.
meta_free_is_zero(items_list, idx) ==
    LET weight == items_list[idx].weight
        value == items_list[idx].value
        ratio == IF weight > 0 THEN f64_div(value, weight)
                 ELSE f64(0)
    IN  <<idx, ratio, value>>

\* meta with the sentinel 0.0 instead of -1.0 for weight 0, value 0.
meta_worthless_is_zero(items_list, idx) ==
    LET weight == items_list[idx].weight
        value == items_list[idx].value
        ratio == IF weight > 0 THEN f64_div(value, weight)
                 ELSE IF value > 0 THEN f64(F64_MAX)
                 ELSE f64(0)
    IN  <<idx, ratio, value>>

\* The closure of the map: (idx, ratio, value) of the item at position idx.
meta(items_list, idx) ==
    LET weight == items_list[idx].weight
        value == items_list[idx].value
        ratio == IF weight > 0 THEN f64_div(value, weight)
                 ELSE IF value > 0 THEN f64(F64_MAX)
                 ELSE f64(-1)
    IN  <<idx, ratio, value>>

\* compare that breaks every tie by the original index.
compare_ties_by_index(a, b) ==
    LET ratio_cmp == partial_cmp(b[2], a[2])
    IN  IF ratio_cmp = "Equal"
        THEN cmp(a[1], b[1])
        ELSE ratio_cmp

\* compare that breaks a tie of finite ratios by the later index first.
compare_later_first(a, b) ==
    LET ratio_cmp == partial_cmp(b[2], a[2])
    IN  IF ratio_cmp = "Equal"
        THEN IF f64_eq(a[2], f64(F64_MAX)) /\ f64_eq(b[2], f64(F64_MAX))
             THEN cmp(b[3], a[3])
             ELSE cmp(b[1], a[1])
        ELSE ratio_cmp

\* compare with the ratios the other way round: an ascending sort.
compare_ascending(a, b) ==
    LET ratio_cmp == partial_cmp(a[2], b[2])
    IN  IF ratio_cmp = "Equal"
        THEN IF f64_eq(a[2], f64(F64_MAX)) /\ f64_eq(b[2], f64(F64_MAX))
             THEN cmp(b[3], a[3])
             ELSE cmp(a[1], b[1])
        ELSE ratio_cmp

\* The closure handed to sort_by: the Ordering of a relative to b.
compare(a, b) ==
    LET ratio_cmp == partial_cmp(b[2], a[2])
    IN  IF ratio_cmp = "Equal"
        THEN IF f64_eq(a[2], f64(F64_MAX)) /\ f64_eq(b[2], f64(F64_MAX))
             THEN cmp(b[3], a[3])
             ELSE cmp(a[1], b[1])
        ELSE ratio_cmp

\* slice::sort_by is a stable sort: v in the order of compare, elements that
\* compare Equal in the order they had.  insert puts e behind every element
\* it is not Less than.
RECURSIVE insert(_, _)
insert(sorted, e) ==
    IF sorted = <<>> THEN <<e>>
    ELSE IF compare(e, Head(sorted)) = "Less" THEN <<e>> \o sorted
    ELSE <<Head(sorted)>> \o insert(Tail(sorted), e)

RECURSIVE sort_by(_)
sort_by(v) ==
    IF v = <<>> THEN <<>>
    ELSE insert(sort_by(SubSeq(v, 1, Len(v) - 1)), v[Len(v)])

\* items_with_meta after the sort.
sorted_meta(items_list) ==
    sort_by([idx \in 1..Len(items_list) |-> meta(items_list, idx)])

\* The input positions in the order of the sorted items_with_meta: the order
\* in which the greedy pass visits them, if it runs at all.
VisitOrder(its) ==
    LET m == sorted_meta(its)
    IN  [j \in DOMAIN its |-> m[j][1]]

\* ------------------------------------------------ greedy solver: the pass

\* greedy_pass that leaves the loop once no capacity is left.
RECURSIVE greedy_pass_stops_when_full(_, _, _, _)
greedy_pass_stops_when_full(items_list, items_with_meta, current_capacity, result_items) ==
    IF items_with_meta = <<>> \/ current_capacity = 0
    THEN result_items
    ELSE LET original_idx == Head(items_with_meta)[1]
             item_weight == items_list[original_idx].weight
         IN  IF item_weight <= current_capacity
             THEN greedy_pass_stops_when_full(items_list, Tail(items_with_meta),
                              current_capacity - item_weight,
                              Append(result_items, original_idx))
             ELSE greedy_pass_stops_when_full(items_list, Tail(items_with_meta),
                              current_capacity, result_items)

\* greedy_pass that forgets current_capacity -= item_weight.
RECURSIVE greedy_pass_no_subtract(_, _, _, _)
greedy_pass_no_subtract(items_list, items_with_meta, current_capacity, result_items) ==
    IF items_with_meta = <<>>
    THEN result_items
    ELSE LET original_idx == Head(items_with_meta)[1]
             item_weight == items_list[original_idx].weight
         IN  IF item_weight <= current_capacity
             THEN greedy_pass_no_subtract(items_list, Tail(items_with_meta),
                              current_capacity,
                              Append(result_items, original_idx))
             ELSE greedy_pass_no_subtract(items_list, Tail(items_with_meta),
                              current_capacity, result_items)

\* greedy_pass with the fit test item_weight < current_capacity.
RECURSIVE greedy_pass_strict(_, _, _, _)
greedy_pass_strict(items_list, items_with_meta, current_capacity, result_items) ==
    IF items_with_meta = <<>>
    THEN result_items
    ELSE LET original_idx == Head(items_with_meta)[1]
             item_weight == items_list[original_idx].weight
         IN  IF item_weight < current_capacity
             THEN greedy_pass_strict(items_list, Tail(items_with_meta),
                              current_capacity - item_weight,
                              Append(result_items, original_idx))
             ELSE greedy_pass_strict(items_list, Tail(items_with_meta),
                              current_capacity, result_items)

\* greedy_pass that ends at the first item that does not fit.
RECURSIVE greedy_pass_breaks_on_misfit(_, _, _, _)
greedy_pass_breaks_on_misfit(items_list, items_with_meta, current_capacity, result_items) ==
    IF items_with_meta = <<>>
    THEN result_items
    ELSE LET original_idx == Head(items_with_meta)[1]
             item_weight == items_list[original_idx].weight
         IN  IF item_weight <= current_capacity
             THEN greedy_pass_breaks_on_misfit(items_list, Tail(items_with_meta),
                              current_capacity - item_weight,
                              Append(result_items, original_idx))
             ELSE result_items

\* The for loop over items_with_meta: the state before an element is
\* (current_capacity, result_items); the result is result_items.
RECURSIVE greedy_pass(_, _, _, _)
greedy_pass(items_list, items_with_meta, current_capacity, result_items) ==
    IF items_with_meta = <<>>
    THEN result_items
    ELSE LET original_idx == Head(items_with_meta)[1]
             item_weight == items_list[original_idx].weight
         IN  IF item_weight <= current_capacity
             THEN greedy_pass(items_list, Tail(items_with_meta),
                              current_capacity - item_weight,
                              Append(result_items, original_idx))
             ELSE greedy_pass(items_list, Tail(items_with_meta),
                              current_capacity, result_items)

\* calculate_greedy_items without the capacity_val == 0 short-circuit.
calculate_greedy_items_no_zero_capacity(items_list, capacity_val) ==
    IF items_list = <<>>
    THEN <<>>
    ELSE greedy_pass(items_list, sorted_meta(items_list), capacity_val, <<>>)

calculate_greedy_items(items_list, capacity_val) ==
    IF items_list = <<>> \/ capacity_val = 0
    THEN <<>>
    ELSE greedy_pass(items_list, sorted_meta(items_list), capacity_val, <<>>)

\* GreedyKnapsackIterator::new
greedy_new(input_items, cap) ==
    [solution_items |-> calculate_greedy_items(input_items, cap),
     current_index |-> 0]

GreedySelf ==
    [solution_items |-> solution_items, current_index |-> greedy_current_index]

\* next that forgets self.current_index += 1.
greedy_next_no_advance(self) ==
    IF self.current_index < Len(self.solution_items)
    THEN [self |-> self,
          item |-> Some(self.solution_items[self.current_index + 1])]
    ELSE [self |-> self, item |-> None]

\* next that moves the cursor before it reads the item.
greedy_next_advance_first(self) ==
    IF self.current_index + 1 < Len(self.solution_items)
    THEN [self |-> [self EXCEPT !.current_index = @ + 1],
          item |-> Some(self.solution_items[self.current_index + 2])]
    ELSE [self |-> self, item |-> None]

\* Iterator::next of GreedyKnapsackIterator.
greedy_next(self) ==
    IF self.current_index < Len(self.solution_items)
    THEN [self |-> [self EXCEPT !.current_index = @ + 1],
          item |-> Some(self.solution_items[self.current_index + 1])]
    ELSE [self |-> self, item |-> None]

\* ----------------------------------------------------------- the machine

\* ------------------------------------- exact solver of optimal.rs, adapters

\* KnapsackIterator::new of optimal.rs.
optimal_new(input_items, cap) ==
    [items |-> input_items, capacity |-> cap, optimal_solution_items |-> <<>>,
     current_index |-> 0, computed |-> FALSE]

\* compute_solution of optimal.rs: no guard on self.computed, and the flag is
\* set here only in the short-circuit.
optimal_compute_solution(self) ==
    LET n == Len(self.items)
    IN  IF n = 0 \/ self.capacity = 0
        THEN [self EXCEPT !.computed = TRUE]
        ELSE LET dp == fill_dp(self.items, self.capacity)
                 solution_items_temp ==
                     reconstruct(self.items, dp, n, self.capacity, <<>>)
             IN  [self EXCEPT
                     !.optimal_solution_items = reverse(solution_items_temp)]

\* next of optimal.rs that leaves the flag to compute_solution.
optimal_next_flag_forgotten(self) ==
    LET s == IF ~self.computed
             THEN optimal_compute_solution(self)
             ELSE self
    IN  IF s.current_index < Len(s.optimal_solution_items)
        THEN [self |-> [s EXCEPT !.current_index = @ + 1],
              item |-> Some(s.optimal_solution_items[s.current_index + 1])]
        ELSE [self |-> s, item |-> None]

\* Iterator::next of optimal.rs: the flag is set after compute_solution.
optimal_next(self) ==
    LET s == IF ~self.computed
             THEN [optimal_compute_solution(self) EXCEPT !.computed = TRUE]
             ELSE self
    IN  IF s.current_index < Len(s.optimal_solution_items)
        THEN [self |-> [s EXCEPT !.current_index = @ + 1],
              item |-> Some(s.optimal_solution_items[s.current_index + 1])]
        ELSE [self |-> s, item |-> None]

\* KnapsackIterator::new of main.rs.
main_new(input_items, cap) ==
    [items |-> input_items, capacity |-> cap, optimal_solution_items |-> <<>>,
     current_index |-> 0, computed |-> FALSE]

\* compute_solution of main.rs: guarded by self.computed, flag set at the end.
main_compute_solution(self) ==
    IF self.computed
    THEN self
    ELSE LET n == Len(self.items)
         IN  IF n = 0 \/ self.capacity = 0
             THEN [self EXCEPT !.computed = TRUE]
             ELSE LET dp == fill_dp(self.items, self.capacity)
                      solution_items_temp ==
                          reconstruct(self.items, dp, n, self.capacity, <<>>)
                  IN  [self EXCEPT
                          !.optimal_solution_items = reverse(solution_items_temp),
                          !.computed = TRUE]

\* Iterator::next of main.rs.
main_next(self) ==
    LET s == IF ~self.computed THEN main_compute_solution(self) ELSE self
    IN  IF s.current_index < Len(s.optimal_solution_items)
        THEN [self |-> [s EXCEPT !.current_index = @ + 1],
              item |-> Some(s.optimal_solution_items[s.current_index + 1])]
        ELSE [self |-> s, item |-> None]

\* ------------------------------------------- greedy solver of optimal.rs

\* The closure of the map in optimal.rs: (idx, ratio), with the sentinel 0.0
\* for weight 0, value 0.
optimal_meta(items_list, idx) ==
    LET weight == items_list[idx].weight
        value == items_list[idx].value
        ratio == IF weight > 0 THEN f64_div(value, weight)
                 ELSE IF value > 0 THEN f64(F64_MAX)
                 ELSE f64(0)
    IN  <<idx, ratio>>

\* The closure handed to sort_by in optimal.rs: the ratios only, descending.
optimal_compare(a, b) == partial_cmp(b[2], a[2])

\* optimal_insert that puts e before the elements it compares Equal to: a
\* sort that is not stable.
RECURSIVE optimal_insert_before_equals(_, _)
optimal_insert_before_equals(sorted, e) ==
    IF sorted = <<>> THEN <<e>>
    ELSE IF optimal_compare(e, Head(sorted)) # "Greater" THEN <<e>> \o sorted
    ELSE <<Head(sorted)>> \o optimal_insert_before_equals(Tail(sorted), e)

\* The stable slice::sort_by under optimal_compare.
RECURSIVE optimal_insert(_, _)
optimal_insert(sorted, e) ==
    IF sorted = <<>> THEN <<e>>
    ELSE IF optimal_compare(e, Head(sorted)) = "Less" THEN <<e>> \o sorted
    ELSE <<Head(sorted)>> \o optimal_insert(Tail(sorted), e)

RECURSIVE optimal_sort_by(_)
optimal_sort_by(v) ==
    IF v = <<>> THEN <<>>
    ELSE optimal_insert(optimal_sort_by(SubSeq(v, 1, Len(v) - 1)), v[Len(v)])

\* items_with_meta of optimal.rs after the sort.
optimal_sorted_meta(items_list) ==
    optimal_sort_by([idx \in 1..Len(items_list) |-> optimal_meta(items_list, idx)])

\* The selection loop of optimal.rs: the state before an element is
\* (current_capacity, result_items).
RECURSIVE optimal_greedy_pass(_, _, _, _)
optimal_greedy_pass(items_list, items_with_meta, current_capacity, result_items) ==
    IF items_with_meta = <<>>
    THEN result_items
    ELSE LET original_idx == Head(items_with_meta)[1]
             item_weight == items_list[original_idx].weight
         IN  IF item_weight <= current_capacity
             THEN optimal_greedy_pass(items_list, Tail(items_with_meta),
                              current_capacity - item_weight,
                              Append(result_items, original_idx))
             ELSE optimal_greedy_pass(items_list, Tail(items_with_meta),
                              current_capacity, result_items)

optimal_calculate_greedy_items(items_list, capacity_val) ==
    IF items_list = <<>> \/ capacity_val = 0
    THEN <<>>
    ELSE optimal_greedy_pass(items_list, optimal_sorted_meta(items_list),
                             capacity_val, <<>>)

\* GreedyKnapsackIterator::new of optimal.rs.
optimal_greedy_new(input_items, cap) ==
    [solution_items |-> optimal_calculate_greedy_items(input_items, cap),
     current_index |-> 0]

\* Iterator::next of the greedy solver of optimal.rs.
optimal_greedy_next(self) ==
    IF self.current_index < Len(self.solution_items)
    THEN [self |-> [self EXCEPT !.current_index = @ + 1],
          item |-> Some(self.solution_items[self.current_index + 1])]
    ELSE [self |-> self, item |-> None]

\* to_knapsack_iter that hands on one unit of capacity less.
to_knapsack_iter_less_capacity(input_items, cap) ==
    optimal_new(input_items, IF cap > 0 THEN cap - 1 ELSE 0)

\* ToKnapsackIterator::to_knapsack_iter.
to_knapsack_iter(input_items, cap) == optimal_new(input_items, cap)

\* ToGreedyKnapsackIterator::to_greedy_knapsack_iter.
to_greedy_knapsack_iter(input_items, cap) == greedy_new(input_items, cap)

\* A caller may pull as long as it likes; the model stops a solver's pulls
\* after MaxEndPulls results of None.
RECURSIVE CountNone(_)
CountNone(h) ==
    IF h = <<>> THEN 0
    ELSE (IF Head(h) = None THEN 1 ELSE 0) + CountNone(Tail(h))

MayPull(h) ==
    /\ CountNone(h) < MaxEndPulls
    /\ Len(h) < Len(items) + MaxEndPulls

Init ==
    /\ items \in Inputs
    /\ capacity \in 0..MaxCapacity
    /\ optimal_solution_items = <<>>
    /\ current_index = 0
    /\ computed = FALSE
    /\ solution_items = greedy_new(items, capacity).solution_items
    /\ greedy_current_index = greedy_new(items, capacity).current_index
    /\ knapsack_pulled = <<>>
    /\ greedy_pulled = <<>>
    /\ dp_runs = 0
    /\ visit_order = VisitOrder(items)
    /\ fault = "none"

KnapsackNext ==
    /\ MayPull(knapsack_pulled)
    /\ LET r == knapsack_next(KnapsackSelf)
       IN  /\ items' = r.self.items
           /\ capacity' = r.self.capacity
           /\ optimal_solution_items' = r.self.optimal_solution_items
           /\ current_index' = r.self.current_index
           /\ computed' = r.self.computed
           /\ dp_runs' = r.self.dp_runs
           /\ knapsack_pulled' = Append(knapsack_pulled, r.item)
    /\ UNCHANGED <<solution_items, greedy_current_index, greedy_pulled,
                   visit_order, fault>>

GreedyNext ==
    /\ MayPull(greedy_pulled)
    /\ LET r == greedy_next(GreedySelf)
       IN  /\ solution_items' = r.self.solution_items
           /\ greedy_current_index' = r.self.current_index
           /\ greedy_pulled' = Append(greedy_pulled, r.item)
    /\ UNCHANGED <<items, capacity, optimal_solution_items, current_index,
                   computed, knapsack_pulled, dp_runs, visit_order, fault>>

Next == KnapsackNext \/ GreedyNext

Spec == Init /\ [][Next]_vars

\* ------------------------------------------ the exact solver in usize words

WordItem == [weight : 0..USIZE_MAX, value : 0..USIZE_MAX]

WordInputs == UNION {[1..n -> WordItem] : n \in 0..MaxItems}

\* a + b of two usize where overflow is not checked: the sum modulo 2^bits.
wrapping_add(a, b) == (a + b) % (USIZE_MAX + 1)

\* Row i of the table as the words hold it.
dp_row_word(its, cap, prev, i) ==
    LET item_weight == its[i].weight
        item_value == its[i].value
    IN  [w \in 0..cap |->
            LET value_without_item == prev[w]
            IN  IF item_weight <= w
                THEN max(value_without_item,
                         wrapping_add(prev[w - item_weight], item_value))
                ELSE value_without_item]

RECURSIVE fill_rows_word(_, _, _)
fill_rows_word(its, cap, i) ==
    IF i = 0
    THEN [r \in {0} |-> [w \in 0..cap |-> 0]]
    ELSE LET below == fill_rows_word(its, cap, i - 1)
             row == dp_row_word(its, cap, below[i - 1], i)
         IN  [r \in 0..i |-> IF r = i THEN row ELSE below[r]]

fill_dp_word(its, cap) == fill_rows_word(its, cap, Len(its))

\* Some dp[i - 1][w - item_weight] + item_value of the fill loop is above
\* usize::MAX.
add_overflows(its, cap, dp) ==
    \E i \in 1..Len(its), w \in 0..cap :
        /\ its[i].weight <= w
        /\ dp[i - 1][w - its[i].weight] + its[i].value > USIZE_MAX

\* compute_solution in words, in a build with overflow checks (a debug
\* build) or without (a release build): the solver after the call and what
\* went wrong.  capacity + 1 above usize::MAX aborts in both builds: with
\* checks at the sum, without them the rows get capacity + 1 = 0 cells and
\* dp[i - 1][0] is out of range.
compute_solution_word(self, overflow_checks) ==
    IF self.computed
    THEN [self |-> self, fault |-> "none"]
    ELSE LET n == Len(self.items)
         IN  IF n = 0 \/ self.capacity = 0
             THEN [self |-> [self EXCEPT !.computed = TRUE], fault |-> "none"]
             ELSE IF self.capacity + 1 > USIZE_MAX
             THEN [self |-> self, fault |-> "panic"]
             ELSE LET dp == fill_dp_word(self.items, self.capacity)
                      solution_items_temp ==
                          reconstruct(self.items, dp, n, self.capacity, <<>>)
                      done == [self EXCEPT
                                  !.optimal_solution_items =
                                      reverse(solution_items_temp),
                                  !.computed = TRUE,
                                  !.dp_runs = @ + 1]
                  IN  IF ~add_overflows(self.items, self.capacity, dp)
                      THEN [self |-> done, fault |-> "none"]
                      ELSE IF overflow_checks
                      THEN [self |-> self, fault |-> "panic"]
                      ELSE [self |-> done, fault |-> "wrapped"]

\* Iterator::next of KnapsackIterator in words.
knapsack_next_word(self, overflow_checks) ==
    LET c == IF ~self.computed
             THEN compute_solution_word(self, overflow_checks)
             ELSE [self |-> self, fault |-> "none"]
        s == c.self
    IN  IF c.fault = "panic"
        THEN [self |-> self, item |-> None, fault |-> "panic"]
        ELSE IF s.current_index < Len(s.optimal_solution_items)
        THEN [self |-> [s EXCEPT !.current_index = @ + 1],
              item |-> Some(s.optimal_solution_items[s.current_index + 1]),
              fault |-> c.fault]
        ELSE [self |-> s, item |-> None, fault |-> c.fault]

InitWord ==
    /\ items \in WordInputs
    /\ capacity \in 0..USIZE_MAX
    /\ optimal_solution_items = <<>>
    /\ current_index = 0
    /\ computed = FALSE
    /\ solution_items = greedy_new(items, capacity).solution_items
    /\ greedy_current_index = greedy_new(items, capacity).current_index
    /\ knapsack_pulled = <<>>
    /\ greedy_pulled = <<>>
    /\ dp_runs = 0
    /\ visit_order = VisitOrder(items)
    /\ fault = "none"

\* A pull of the exact solver, in either build.  An abort ends the program:
\* nothing is returned and no later pull happens.
KnapsackNextWord ==
    /\ fault # "panic"
    /\ MayPull(knapsack_pulled)
    /\ \E overflow_checks \in BOOLEAN :
          LET r == knapsack_next_word(KnapsackSelf, overflow_checks)
          IN  IF r.fault = "panic"
              THEN /\ fault' = "panic"
                   /\ UNCHANGED <<items, capacity, optimal_solution_items,
                                  current_index, computed, dp_runs,
                                  knapsack_pulled>>
              ELSE /\ items' = r.self.items
                   /\ capacity' = r.self.capacity
                   /\ optimal_solution_items' = r.self.optimal_solution_items
                   /\ current_index' = r.self.current_index
                   /\ computed' = r.self.computed
                   /\ dp_runs' = r.self.dp_runs
                   /\ knapsack_pulled' = Append(knapsack_pulled, r.item)
                   /\ fault' = IF r.fault = "wrapped" THEN "wrapped" ELSE fault
    /\ UNCHANGED <<solution_items, greedy_current_index, greedy_pulled,
                   visit_order>>

\* A pull of the greedy solver: its only usize arithmetic is the guarded
\* current_capacity -= item_weight.
GreedyNextWord ==
    /\ fault # "panic"
    /\ GreedyNext

NextWord == KnapsackNextWord \/ GreedyNextWord

SpecWord == InitWord /\ [][NextWord]_vars

\* ------------------------------------------------------------ measures

\* The positions a history yielded, in order (its Some results).
RECURSIVE Yielded(_)
Yielded(h) ==
    IF h = <<>> THEN <<>>
    ELSE IF Head(h) = None THEN Yielded(Tail(h))
    ELSE <<Head(h)[1]>> \o Yielded(Tail(h))

\* A history whose last pull returned end-of-sequence.
Drained(h) == h # <<>> /\ h[Len(h)] = None

\* Total weight and value of a sequence of positions.
RECURSIVE SeqWeight(_, _)
SeqWeight(its, ps) ==
    IF ps = <<>> THEN 0 ELSE its[Head(ps)].weight + SeqWeight(its, Tail(ps))

RECURSIVE SeqValue(_, _)
SeqValue(its, ps) ==
    IF ps = <<>> THEN 0 ELSE its[Head(ps)].value + SeqValue(its, Tail(ps))

\* Total weight and value of a set of positions.
RECURSIVE SetWeight(_, _)
SetWeight(its, S) ==
    IF S = {} THEN 0
    ELSE LET p == CHOOSE q \in S : TRUE
         IN  its[p].weight + SetWeight(its, S \ {p})

RECURSIVE SetValue(_, _)
SetValue(its, S) ==
    IF S = {} THEN 0
    ELSE LET p == CHOOSE q \in S : TRUE
         IN  its[p].value + SetValue(its, S \ {p})

\* The largest number of a non-empty finite set of numbers.
Largest(S) == CHOOSE v \in S : \A u \in S : v >= u

\* The subsets of the input that fit the capacity.
Feasible == {S \in SUBSET DOMAIN items : SetWeight(items, S) <= capacity}

\* No position twice, every position one of the input.
DistinctPositions(ps) ==
    /\ \A k \in DOMAIN ps : ps[k] \in DOMAIN items
    /\ \A j, k \in DOMAIN ps : j # k => ps[j] # ps[k]

\* An item that costs nothing and is worth something.
FreeGood(i) == items[i].weight = 0 /\ items[i].value > 0

\* -------------------------------------------------------------- claims

\* C1 as stated: once the exact solver is drained, the total value of what
\* it yielded is at least the total value of every subset of the input that
\* fits the capacity, for every input, capacity 0 and items of weight 0
\* included.
C1_OptimalForAllInputs ==
    Drained(knapsack_pulled) =>
        \A S \in Feasible :
            SeqValue(items, Yielded(knapsack_pulled)) >= SetValue(items, S)

\* C1 amended: the same, except when the capacity is 0 and some item has
\* weight 0 and a positive value (the solver then yields nothing).
C1_OptimalUnlessFreeGoodAtZeroCapacity ==
    (Drained(knapsack_pulled)
        /\ ~(capacity = 0 /\ \E i \in DOMAIN items : FreeGood(i))) =>
        \A S \in Feasible :
            SeqValue(items, Yielded(knapsack_pulled)) >= SetValue(items, S)

\* C1 witness: a drained exact solver, capacity > 0, whose yield is worth
\* strictly more than the greedy result on the same input.
C1_Witness ==
    /\ Drained(knapsack_pulled)
    /\ capacity > 0
    /\ Yielded(knapsack_pulled) # <<>>
    /\ SeqValue(items, Yielded(knapsack_pulled)) > SeqValue(items, solution_items)

\* C2: the total weight of what the exact solver yielded, and of what the
\* greedy solver yielded, never exceeds the capacity.
C2_Feasible ==
    /\ SeqWeight(items, Yielded(knapsack_pulled)) <= capacity
    /\ SeqWeight(items, Yielded(greedy_pulled)) <= capacity

\* C2 witness: both solvers drained, each having yielded two items that
\* fill the capacity exactly.
C2_Witness ==
    /\ Drained(knapsack_pulled) /\ Drained(greedy_pulled)
    /\ Len(Yielded(knapsack_pulled)) = 2 /\ Len(Yielded(greedy_pulled)) = 2
    /\ capacity > 0
    /\ SeqWeight(items, Yielded(knapsack_pulled)) = capacity
    /\ SeqWeight(items, Yielded(greedy_pulled)) = capacity

\* C3: what either solver yielded is a sequence of distinct input positions;
\* equal items at different positions count as distinct.
C3_ZeroOne ==
    /\ DistinctPositions(Yielded(knapsack_pulled))
    /\ DistinctPositions(Yielded(greedy_pulled))

\* C3 witness: two equal items at different positions, both yielded by both
\* solvers.
C3_Witness ==
    /\ Len(items) >= 2 /\ items[1] = items[2]
    /\ Drained(knapsack_pulled) /\ Drained(greedy_pulled)
    /\ {1, 2} \subseteq {Yielded(knapsack_pulled)[k] : k \in DOMAIN Yielded(knapsack_pulled)}
    /\ {1, 2} \subseteq {Yielded(greedy_pulled)[k] : k \in DOMAIN Yielded(greedy_pulled)}

\* No items, capacity 0, or every item heavier than the capacity.
Degenerate ==
    \/ items = <<>>
    \/ capacity = 0
    \/ \A i \in DOMAIN items : items[i].weight > capacity

\* C4: on a degenerate input every pull of either solver, the first one
\* included, returns end-of-sequence.
C4_DegenerateIsEmpty ==
    Degenerate =>
        /\ \A k \in DOMAIN knapsack_pulled : knapsack_pulled[k] = None
        /\ \A k \in DOMAIN greedy_pulled : greedy_pulled[k] = None

\* C4 witness: capacity 0 with an item of weight 0 and positive value, both
\* solvers pulled.
C4_Witness ==
    /\ capacity = 0
    /\ \E i \in DOMAIN items : FreeGood(i)
    /\ knapsack_pulled # <<>> /\ greedy_pulled # <<>>

\* C4 witness of the other two cases: no items, and items all too heavy.
C4_WitnessEmpty ==
    items = <<>> /\ capacity > 0 /\ knapsack_pulled # <<>> /\ greedy_pulled # <<>>

C4_WitnessTooHeavy ==
    /\ items # <<>> /\ capacity > 0
    /\ \A i \in DOMAIN items : items[i].weight > capacity
    /\ knapsack_pulled # <<>> /\ greedy_pulled # <<>>

\* C5: once a pull of a solver has returned end-of-sequence, every step
\* leaves that solver drained, its cursor where it was and its yield as it
\* was: a later pull returns end-of-sequence again.
C5_IdempotentDraining ==
    [][/\ Drained(knapsack_pulled) =>
            /\ Drained(knapsack_pulled')
            /\ current_index' = current_index
            /\ Yielded(knapsack_pulled') = Yielded(knapsack_pulled)
       /\ Drained(greedy_pulled) =>
            /\ Drained(greedy_pulled')
            /\ greedy_current_index' = greedy_current_index
            /\ Yielded(greedy_pulled') = Yielded(greedy_pulled)]_vars

\* C5 witness: both solvers have yielded an item and then returned
\* end-of-sequence twice.
C5_Witness ==
    /\ Yielded(knapsack_pulled) # <<>> /\ CountNone(knapsack_pulled) >= 2
    /\ Yielded(greedy_pulled) # <<>> /\ CountNone(greedy_pulled) >= 2

\* The k-th pull returned the k-th element of sol, and end-of-sequence
\* beyond its length.
DrainsAs(h, sol) ==
    \A k \in DOMAIN h : h[k] = IF k <= Len(sol) THEN Some(sol[k]) ELSE None

\* C6: with a solution of length L, the k-th pull returns its k-th element
\* for k <= L and pull L+1 returns end-of-sequence; L <= n, and a drained
\* solver has yielded exactly L items.
C6_DrainingContract ==
    /\ DrainsAs(knapsack_pulled, optimal_solution_items)
    /\ DrainsAs(greedy_pulled, solution_items)
    /\ Len(optimal_solution_items) <= Len(items)
    /\ Len(solution_items) <= Len(items)
    /\ Drained(knapsack_pulled) =>
            Len(Yielded(knapsack_pulled)) = Len(optimal_solution_items)
    /\ Drained(greedy_pulled) =>
            Len(Yielded(greedy_pulled)) = Len(solution_items)

\* C6 witness: both solutions have two items and both solvers are drained.
C6_Witness ==
    /\ Len(optimal_solution_items) = 2 /\ Len(solution_items) = 2
    /\ Drained(knapsack_pulled) /\ Drained(greedy_pulled)

\* C7: computed is false until the first pull and true from then on; the
\* table is built once if a pull happened on an input with items and
\* capacity > 0 and never otherwise; compute_solution on a computed solver
\* changes no field.
C7_ComputeOnce ==
    /\ computed <=> knapsack_pulled # <<>>
    /\ dp_runs = IF knapsack_pulled # <<>> /\ items # <<>> /\ capacity > 0
                 THEN 1 ELSE 0
    /\ computed => compute_solution(KnapsackSelf) = KnapsackSelf

\* C7 witness: several pulls on an input with a non-empty solution.
C7_Witness ==
    /\ Len(knapsack_pulled) >= 3
    /\ optimal_solution_items # <<>>
    /\ dp_runs = 1

\* C8: no step changes items, capacity or the greedy solution_items; no
\* step after the first pull changes optimal_solution_items or computed; a
\* pull moves its solver's cursor by 1 when it returns an item and not at
\* all when it returns end-of-sequence, and leaves the other solver alone.
C8_FrozenSolution ==
    [][/\ items' = items
       /\ capacity' = capacity
       /\ solution_items' = solution_items
       /\ computed => (computed' /\ optimal_solution_items' = optimal_solution_items)
       /\ current_index' =
            IF knapsack_pulled' # knapsack_pulled
                  /\ knapsack_pulled'[Len(knapsack_pulled')] # None
            THEN current_index + 1 ELSE current_index
       /\ greedy_current_index' =
            IF greedy_pulled' # greedy_pulled
                  /\ greedy_pulled'[Len(greedy_pulled')] # None
            THEN greedy_current_index + 1 ELSE greedy_current_index]_vars

\* C8 witness: both solvers have returned an item and then end-of-sequence.
C8_Witness ==
    /\ Yielded(knapsack_pulled) # <<>> /\ Drained(knapsack_pulled)
    /\ Yielded(greedy_pulled) # <<>> /\ Drained(greedy_pulled)
    /\ computed

PassRuns == items # <<>> /\ capacity > 0

Admitted(p) == \E k \in DOMAIN solution_items : solution_items[k] = p

\* The capacity left when the j-th position of the order is visited: the
\* capacity less the weights of the positions admitted before it.
RECURSIVE RemainingAt(_, _)
RemainingAt(order, j) ==
    IF j = 1 THEN capacity
    ELSE RemainingAt(order, j - 1)
            - (IF Admitted(order[j - 1]) THEN items[order[j - 1]].weight ELSE 0)

\* The admitted positions in visiting order.
RECURSIVE AdmittedInOrder(_, _)
AdmittedInOrder(order, j) ==
    IF j = 0 THEN <<>>
    ELSE IF Admitted(order[j])
         THEN Append(AdmittedInOrder(order, j - 1), order[j])
         ELSE AdmittedInOrder(order, j - 1)

\* C9: a position is in the greedy result exactly if the pass visits it and
\* its weight is at most the capacity left at that moment, where admitting
\* subtracts the weight and skipping subtracts nothing; the result is the
\* admitted positions in visiting order, each once.
C9_GreedySinglePass ==
    LET order == visit_order
    IN  /\ \A j \in DOMAIN items :
              Admitted(order[j]) <=>
                  (PassRuns /\ items[order[j]].weight <= RemainingAt(order, j))
        /\ solution_items = AdmittedInOrder(order, Len(items))

\* C9 witness: the pass skips a position and admits a later one, one of the
\* admitted filling the remaining capacity exactly.
C9_Witness ==
    LET order == visit_order
    IN  /\ PassRuns
        /\ Drained(greedy_pulled)
        /\ \E j, k \in DOMAIN items :
              /\ j < k
              /\ ~Admitted(order[j])
              /\ Admitted(order[k])
              /\ items[order[k]].weight = RemainingAt(order, k)
              /\ RemainingAt(order, k) > 0

\* C10: of two positive-weight items the greedy solver yielded, the earlier
\* has a value/weight ratio at least that of the later.
C10_GreedyOrder ==
    LET ys == Yielded(greedy_pulled)
    IN  \A j, k \in DOMAIN ys :
            (j < k /\ items[ys[j]].weight > 0 /\ items[ys[k]].weight > 0) =>
                items[ys[j]].value * items[ys[k]].weight
                    >= items[ys[k]].value * items[ys[j]].weight

\* C10 witness: two positive-weight items of different ratio, yielded in the
\* reverse of their input order.
C10_Witness ==
    LET ys == Yielded(greedy_pulled)
    IN  /\ Len(ys) = 2
        /\ ys[1] > ys[2]
        /\ items[ys[1]].weight > 0 /\ items[ys[2]].weight > 0
        /\ items[ys[1]].value * items[ys[2]].weight
              > items[ys[2]].value * items[ys[1]].weight

\* An item that costs nothing and is worth nothing.
WorthlessFree(i) == items[i].weight = 0 /\ items[i].value = 0

\* C11: the greedy solver ranks every item of weight 0 and positive value
\* before every item of positive weight, and yields them in that order.
C11_ZeroWeightPriority ==
    LET order == visit_order
        ys == Yielded(greedy_pulled)
    IN  /\ \A j, k \in DOMAIN order :
              (FreeGood(order[j]) /\ items[order[k]].weight > 0) => j < k
        /\ \A j, k \in DOMAIN ys :
              (FreeGood(ys[j]) /\ items[ys[k]].weight > 0) => j < k

\* C11 witness: an item of weight 0 and positive value, second in the input,
\* yielded before a positive-weight item of positive value.
C11_Witness ==
    LET ys == Yielded(greedy_pulled)
    IN  /\ Len(ys) = 2
        /\ ys[1] = 2 /\ ys[2] = 1
        /\ FreeGood(2)
        /\ items[1].weight > 0 /\ items[1].value > items[2].value

\* C12: of two items of weight 0 and positive value the greedy solver ranks
\* and yields the one of higher value first, whatever the input order.
C12_FreeGoodsByValue ==
    LET order == visit_order
        ys == Yielded(greedy_pulled)
    IN  /\ \A j, k \in DOMAIN order :
              (j < k /\ FreeGood(order[j]) /\ FreeGood(order[k])) =>
                  items[order[j]].value >= items[order[k]].value
        /\ \A j, k \in DOMAIN ys :
              (j < k /\ FreeGood(ys[j]) /\ FreeGood(ys[k])) =>
                  items[ys[j]].value >= items[ys[k]].value

\* C12 witness: two such items, the more valuable one later in the input
\* and yielded first.
C12_Witness ==
    LET ys == Yielded(greedy_pulled)
    IN  /\ Len(ys) = 2
        /\ ys[1] = 2 /\ ys[2] = 1
        /\ FreeGood(1) /\ FreeGood(2)
        /\ items[2].value > items[1].value

\* C13: the greedy solver ranks every item of weight 0 and value 0 after
\* every other item, positive-weight items of value 0 included, and yields
\* them in that order.
C13_WorthlessFreeLast ==
    LET order == visit_order
        ys == Yielded(greedy_pulled)
    IN  /\ \A j, k \in DOMAIN order :
              (WorthlessFree(order[j]) /\ ~WorthlessFree(order[k])) => k < j
        /\ \A j, k \in DOMAIN ys :
              (WorthlessFree(ys[j]) /\ ~WorthlessFree(ys[k])) => k < j

\* C13 witness: an item of weight 0 and value 0, first in the input, yielded
\* after a positive-weight item of value 0.
C13_Witness ==
    LET ys == Yielded(greedy_pulled)
    IN  /\ Len(ys) = 2
        /\ ys[1] = 2 /\ ys[2] = 1
        /\ WorthlessFree(1)
        /\ items[2].weight > 0 /\ items[2].value = 0

\* Two positive-weight items of equal value/weight ratio.
SameFiniteRatio(p, q) ==
    /\ items[p].weight > 0 /\ items[q].weight > 0
    /\ items[p].value * items[q].weight = items[q].value * items[p].weight

\* C14: of two positive-weight items of equal ratio the greedy solver visits
\* (and yields) the one of smaller input index first; so when each of them
\* fits the capacity left as the earlier one is reached, and both together
\* do not, the earlier one is selected and the later one is not.
C14_FiniteRatioTieBreak ==
    LET order == visit_order
        ys == Yielded(greedy_pulled)
    IN  /\ \A j, k \in DOMAIN order :
              (SameFiniteRatio(order[j], order[k]) /\ order[j] < order[k]) =>
                  /\ j < k
                  /\ (/\ PassRuns
                      /\ items[order[j]].weight <= RemainingAt(order, j)
                      /\ items[order[k]].weight <= RemainingAt(order, j)
                      /\ items[order[j]].weight + items[order[k]].weight
                            > RemainingAt(order, j)) =>
                         (Admitted(order[j]) /\ ~Admitted(order[k]))
        /\ \A j, k \in DOMAIN ys :
              (SameFiniteRatio(ys[j], ys[k]) /\ ys[j] < ys[k]) => j < k

\* C14 witness: two items of equal ratio and different weight, each fitting
\* the capacity alone and not both; the greedy solver, drained, has yielded
\* the first and not the second.
C14_Witness ==
    /\ Len(items) = 2
    /\ SameFiniteRatio(1, 2)
    /\ items[1].value > 0
    /\ items[1].weight < items[2].weight
    /\ items[2].weight <= capacity
    /\ items[1].weight + items[2].weight > capacity
    /\ Drained(greedy_pulled)
    /\ Yielded(greedy_pulled) = <<1>>

\* The positions of a sequence, as a set.
Range(ps) == {ps[k] : k \in DOMAIN ps}

\* C15: on an input with items and capacity > 0 every item of weight 0,
\* whatever its value, is in the greedy result, and a drained greedy solver
\* has yielded it.
C15_ZeroWeightAlwaysAdmitted ==
    PassRuns =>
        \A i \in DOMAIN items :
            items[i].weight = 0 =>
                /\ Admitted(i)
                /\ Drained(greedy_pulled) => i \in Range(Yielded(greedy_pulled))

\* C15 witness: a positive-weight item has used the whole capacity and an
\* item of weight 0 and value 0 is yielded after it.
C15_Witness ==
    LET ys == Yielded(greedy_pulled)
    IN  /\ Drained(greedy_pulled)
        /\ Len(ys) = 2
        /\ items[ys[1]].weight = capacity /\ capacity > 0
        /\ WorthlessFree(ys[2])

\* C15 witness of the other case: no positive-weight item fits, the item of
\* weight 0 is yielded alone.
C15_WitnessNothingElseFits ==
    /\ Len(items) = 2
    /\ items[1].weight > capacity /\ capacity > 0
    /\ items[2].weight = 0
    /\ Drained(greedy_pulled)
    /\ Yielded(greedy_pulled) = <<2>>

\* Position i is in the exact solution.
Selected(i) == \E k \in DOMAIN optimal_solution_items : optimal_solution_items[k] = i

\* The running budget of the backward walk before row i: the capacity less
\* the weights of the selected positions above i.
RECURSIVE BudgetAt(_)
BudgetAt(i) ==
    IF i = Len(items) THEN capacity
    ELSE BudgetAt(i + 1)
            - (IF Selected(i + 1) THEN items[i + 1].weight ELSE 0)

\* C16: at row i with running budget w the walk selects item i exactly if it
\* fits and dp[i-1][w-wt] + val > dp[i-1][w], strictly; and if some subset of
\* maximum value within the capacity omits the last input item, so does the
\* exact result.
C16_ExactTieBreak ==
    computed =>
        /\ (items # <<>> /\ capacity > 0) =>
              LET dp == fill_dp(items, capacity)
              IN  \A i \in DOMAIN items :
                      LET w == BudgetAt(i)
                          wt == items[i].weight
                          val == items[i].value
                      IN  Selected(i) <=>
                              (wt <= w /\ dp[i - 1][w - wt] + val > dp[i - 1][w])
        /\ items # <<>> =>
              LET best == Largest({SetValue(items, T) : T \in Feasible})
              IN  (\E S \in Feasible :
                      Len(items) \notin S /\ SetValue(items, S) = best)
                  => ~Selected(Len(items))

\* C16 witness: two items of equal weight and value of which only one fits:
\* taking the last or the first gives the same value, the solver, drained,
\* has yielded the first.
C16_Witness ==
    /\ Len(items) = 2
    /\ items[1] = items[2]
    /\ items[1].value > 0
    /\ items[1].weight <= capacity
    /\ 2 * items[1].weight > capacity
    /\ Drained(knapsack_pulled)
    /\ Yielded(knapsack_pulled) = <<1>>

\* C17: the exact solver never selects, and never yields, an item of value 0.
C17_ExactSkipsZeroValue ==
    /\ \A k \in DOMAIN optimal_solution_items :
          items[optimal_solution_items[k]].value > 0
    /\ \A k \in DOMAIN knapsack_pulled :
          knapsack_pulled[k] # None => items[knapsack_pulled[k][1]].value > 0

\* C17 witness: the solver, drained, has yielded an item and left out an
\* item of value 0 that fits the capacity left over.
C17_Witness ==
    /\ Drained(knapsack_pulled)
    /\ Yielded(knapsack_pulled) # <<>>
    /\ \E i \in DOMAIN items :
          /\ items[i].value = 0
          /\ items[i].weight > 0
          /\ i \notin Range(Yielded(knapsack_pulled))
          /\ items[i].weight
                <= capacity - SeqWeight(items, Yielded(knapsack_pulled))

\* C18: the exact solver yields its items in strictly ascending input
\* position.
C18_ExactAscendingOrder ==
    LET ys == Yielded(knapsack_pulled)
    IN  /\ \A j, k \in DOMAIN ys : j < k => ys[j] < ys[k]
        /\ \A j, k \in DOMAIN optimal_solution_items :
              j < k => optimal_solution_items[j] < optimal_solution_items[k]

\* C18 witness: the solver has yielded the first and then the second item.
C18_Witness ==
    /\ Drained(knapsack_pulled)
    /\ Yielded(knapsack_pulled) = <<1, 2>>

\* The results of the first k pulls on an exact solver of optimal.rs.
RECURSIVE OptimalPulls(_, _)
OptimalPulls(self, k) ==
    IF k = 0 THEN <<>>
    ELSE LET r == optimal_next(self)
         IN  <<r.item>> \o OptimalPulls(r.self, k - 1)

\* The results of the first k pulls on a greedy solver.
RECURSIVE GreedyPulls(_, _)
GreedyPulls(self, k) ==
    IF k = 0 THEN <<>>
    ELSE LET r == greedy_next(self)
         IN  <<r.item>> \o GreedyPulls(r.self, k - 1)

\* C19: the pull results of items.to_knapsack_iter(capacity) are those of
\* KnapsackIterator::new(items, capacity), and the pull results of
\* items.to_greedy_knapsack_iter(capacity) are those of
\* GreedyKnapsackIterator::new(items, capacity), for every number of pulls.
C19_AdapterEquivalence ==
    /\ knapsack_pulled
          = OptimalPulls(to_knapsack_iter(items, capacity), Len(knapsack_pulled))
    /\ greedy_pulled
          = GreedyPulls(to_greedy_knapsack_iter(items, capacity),
                        Len(greedy_pulled))

\* C19 witness: both directly built solvers are drained after yielding at
\* least one item each, with an item left out by the exact solver.
C19_Witness ==
    /\ Drained(knapsack_pulled)
    /\ Drained(greedy_pulled)
    /\ Yielded(knapsack_pulled) # <<>>
    /\ Yielded(greedy_pulled) # <<>>
    /\ Len(Yielded(knapsack_pulled)) < Len(items)

\* C20: for every input of machine-word weights, values and capacity,
\* construction and every pull of both solvers complete without abort and
\* without a sum overflowing the word: no fault is ever recorded.
C20_NoPanicNoOverflow == fault = "none"

\* C20, the abort alone: no pull aborts the program.
C20_NoPanic == fault # "panic"

\* C20, the guarded parts: every solver field stays a word, so no
\* subtraction went below zero, and every yielded position is an input
\* position.
C20_GuardedArithmetic ==
    /\ current_index \in 0..Len(optimal_solution_items)
    /\ greedy_current_index \in 0..Len(solution_items)
    /\ capacity - SeqWeight(items, solution_items) \in 0..USIZE_MAX
    /\ \A k \in DOMAIN optimal_solution_items :
          optimal_solution_items[k] \in DOMAIN items

\* The maximum total value over the subsets of the first i items whose total
\* weight is at most w.
BestValue(i, w) ==
    Largest({SetValue(items, S) :
                S \in {T \in SUBSET (1..i) : SetWeight(items, T) <= w}})

\* C21: at the pull that runs the fill phase, for every i in 0..n and w in
\* 0..capacity, dp[i][w] is the maximum total value over the subsets of the
\* first i items of total weight at most w, and dp[0][w] = 0.
C21_TableMeaning ==
    [][(~computed /\ computed' /\ items # <<>> /\ capacity > 0) =>
          LET dp == fill_dp(items, capacity)
          IN  /\ DOMAIN dp = 0..Len(items)
              /\ \A i \in 0..Len(items) :
                    /\ DOMAIN dp[i] = 0..capacity
                    /\ \A w \in 0..capacity : dp[i][w] = BestValue(i, w)
              /\ \A w \in 0..capacity : dp[0][w] = 0]_vars

\* C21 witness: the table has been filled for two items, and at some budget
\* the second item fits but leaving it out is worth strictly more, while at
\* the full capacity taking it is worth strictly more.
C21_Witness ==
    /\ computed
    /\ Len(items) = 2
    /\ capacity > 0
    /\ LET dp == fill_dp(items, capacity)
       IN  /\ \E w \in 0..capacity :
                 /\ items[2].weight <= w
                 /\ dp[1][w] > dp[1][w - items[2].weight] + items[2].value
           /\ dp[2][capacity] > dp[1][capacity]

\* The value the backward walk has selected before row i: the values of the
\* selected positions above i.
RECURSIVE ValueAbove(_)
ValueAbove(i) ==
    IF i = Len(items) THEN 0
    ELSE ValueAbove(i + 1)
            + (IF Selected(i + 1) THEN items[i + 1].value ELSE 0)

\* The walk's bookkeeping adds up: the values of the selected items sum to
\* dp[n][capacity], and before every row i of the walk, and after the last,
\* the running budget is within 0..capacity and
\* (value selected so far) + dp[i][current_w] = dp[n][capacity].
WalkAddsUp ==
    LET dp == fill_dp(items, capacity)
        n == Len(items)
    IN  /\ SeqValue(items, optimal_solution_items) = dp[n][capacity]
        /\ \A i \in 0..n :
              /\ BudgetAt(i) \in 0..capacity
              /\ ValueAbove(i) + dp[i][BudgetAt(i)] = dp[n][capacity]

\* C22: on an input with items and capacity > 0, the pull that runs the
\* backward walk leaves a selection whose values sum to dp[n][capacity], and
\* (value selected so far) + dp[i][current_w] = dp[n][capacity] held before
\* every row i of the walk.
C22_ReconstructionRecoversOptimum ==
    [][(~computed /\ computed' /\ items # <<>> /\ capacity > 0) =>
          WalkAddsUp']_vars

\* C22 witness: of two items of positive value the walk has selected the
\* second and then left out the first, which would have fitted the capacity
\* alone.
C22_Witness ==
    /\ Len(items) = 2
    /\ items[1].value > 0
    /\ items[1].weight <= capacity
    /\ Drained(knapsack_pulled)
    /\ Yielded(knapsack_pulled) = <<2>>

\* C23: the total value of the greedy solver's result is at most the total
\* value of the exact solver's result on the same input.
C23_GreedyNeverBeatsExact ==
    computed =>
        SeqValue(items, solution_items)
            <= SeqValue(items, optimal_solution_items)

\* C23 witness: both solvers are drained and the greedy solver has yielded
\* strictly less value than the exact solver.
C23_Witness ==
    /\ Drained(knapsack_pulled)
    /\ Drained(greedy_pulled)
    /\ Yielded(greedy_pulled) # <<>>
    /\ SeqValue(items, Yielded(greedy_pulled))
          < SeqValue(items, Yielded(knapsack_pulled))

\* C23 witness at capacity 0, where an item of weight 0 and positive value
\* is at hand: both solvers, drained, have yielded nothing.
C23_WitnessZeroCapacity ==
    /\ capacity = 0
    /\ \E i \in DOMAIN items : FreeGood(i)
    /\ Drained(knapsack_pulled)
    /\ Drained(greedy_pulled)
    /\ Yielded(greedy_pulled) = <<>>
    /\ Yielded(knapsack_pulled) = <<>>

\* C24: on an input with items and capacity > 0, every input item the
\* greedy pass did not select is strictly heavier than the capacity left at
\* the end (capacity minus the selected weight); a drained greedy solver has
\* yielded all the others.
C24_GreedyMaximal ==
    PassRuns =>
        LET remaining == capacity - SeqWeight(items, solution_items)
        IN  /\ \A i \in DOMAIN items :
                  ~Admitted(i) => items[i].weight > remaining
            /\ Drained(greedy_pulled) =>
                  \A i \in DOMAIN items :
                      i \notin Range(Yielded(greedy_pulled)) =>
                          items[i].weight > remaining

\* C24 witness: the drained greedy solver has selected an item of positive
\* weight and left out another, and capacity is left over, less than the
\* weight of the item left out.
C24_Witness ==
    /\ PassRuns
    /\ Drained(greedy_pulled)
    /\ capacity - SeqWeight(items, Yielded(greedy_pulled)) > 0
    /\ \E j, k \in DOMAIN items :
          /\ ~Admitted(j)
          /\ Admitted(k)
          /\ items[k].weight > 0

\* C25: on an input with items and capacity > 0 the exact solver selects
\* every item of weight 0 and positive value and no item of weight 0 and
\* value 0; a drained exact solver has yielded the former and not the latter.
C25_ExactFreeItems ==
    (computed /\ items # <<>> /\ capacity > 0) =>
        \A i \in DOMAIN items :
            /\ FreeGood(i) =>
                  /\ Selected(i)
                  /\ Drained(knapsack_pulled) =>
                        i \in Range(Yielded(knapsack_pulled))
            /\ WorthlessFree(i) =>
                  /\ ~Selected(i)
                  /\ i \notin Range(Yielded(knapsack_pulled))

\* C25 witness: of an item of weight 0 and value 0 followed by an item of
\* weight 0 and positive value, the drained exact solver has yielded the
\* second only.
C25_Witness ==
    /\ Len(items) = 2
    /\ capacity > 0
    /\ WorthlessFree(1)
    /\ FreeGood(2)
    /\ Drained(knapsack_pulled)
    /\ Yielded(knapsack_pulled) = <<2>>

\* An exact solver of optimal.rs after k pulls, with the results of the
\* pulls: [self, pulled].
RECURSIVE OptimalRun(_, _)
OptimalRun(self, k) ==
    IF k = 0 THEN [self |-> self, pulled |-> <<>>]
    ELSE LET before == OptimalRun(self, k - 1)
             r == optimal_next(before.self)
         IN  [self |-> r.self, pulled |-> Append(before.pulled, r.item)]

\* The same for the exact solver of main.rs.
RECURSIVE MainRun(_, _)
MainRun(self, k) ==
    IF k = 0 THEN [self |-> self, pulled |-> <<>>]
    ELSE LET before == MainRun(self, k - 1)
             r == main_next(before.self)
         IN  [self |-> r.self, pulled |-> Append(before.pulled, r.item)]

\* C26: after any number of pulls the exact solvers of knapsack.rs, of
\* optimal.rs and of main.rs, built on the same input, have returned the same
\* sequence of results and have the same computed flag (and the same cursor
\* and selection).
C26_ExactVariantsEquivalent ==
    LET k == Len(knapsack_pulled)
        o == OptimalRun(optimal_new(items, capacity), k)
        m == MainRun(main_new(items, capacity), k)
    IN  /\ o.pulled = knapsack_pulled
        /\ m.pulled = knapsack_pulled
        /\ o.self.computed = computed
        /\ m.self.computed = computed
        /\ o.self.current_index = current_index
        /\ m.self.current_index = current_index
        /\ o.self.optimal_solution_items = optimal_solution_items
        /\ m.self.optimal_solution_items = optimal_solution_items

\* C26 witness: the solver of knapsack.rs ran its table once, has yielded an
\* item and has then been pulled twice past the end.
C26_Witness ==
    /\ dp_runs = 1
    /\ Yielded(knapsack_pulled) # <<>>
    /\ CountNone(knapsack_pulled) >= 2

\* C26 witness of the short-circuit: on capacity 0 the solver has been
\* pulled twice and the flag is set.
C26_WitnessDegenerate ==
    /\ capacity = 0
    /\ items # <<>>
    /\ Len(knapsack_pulled) >= 2
    /\ computed

\* The results of the first k pulls on a greedy solver of optimal.rs.
RECURSIVE OptimalGreedyPulls(_, _)
OptimalGreedyPulls(self, k) ==
    IF k = 0 THEN <<>>
    ELSE LET r == optimal_greedy_next(self)
         IN  <<r.item>> \o OptimalGreedyPulls(r.self, k - 1)

\* The positions of positive weight of a sequence of positions, in order.
RECURSIVE PositiveWeightOnly(_)
PositiveWeightOnly(ps) ==
    IF ps = <<>> THEN <<>>
    ELSE IF items[Head(ps)].weight > 0
         THEN <<Head(ps)>> \o PositiveWeightOnly(Tail(ps))
         ELSE PositiveWeightOnly(Tail(ps))

\* C27: the greedy solvers of greedy.rs and of optimal.rs select the same
\* set of input positions on every input and capacity; when every item has
\* positive weight they return the same sequence of pull results; and their
\* outputs differ at most in where the items of weight 0 stand: the items of
\* positive weight come in the same order in both.
C27_GreedyVariants ==
    LET o == optimal_greedy_new(items, capacity)
        g == OptimalGreedyPulls(o, Len(greedy_pulled))
    IN  /\ Range(o.solution_items) = Range(solution_items)
        /\ Len(o.solution_items) = Len(solution_items)
        /\ PositiveWeightOnly(o.solution_items)
              = PositiveWeightOnly(solution_items)
        /\ (\A i \in DOMAIN items : items[i].weight > 0) => g = greedy_pulled
        /\ Drained(greedy_pulled) =>
              /\ Drained(g)
              /\ Range(Yielded(g)) = Range(Yielded(greedy_pulled))

\* C27 witness: every item has positive weight and the solver of greedy.rs,
\* drained, has yielded two items against their input order.
C27_Witness ==
    /\ \A i \in DOMAIN items : items[i].weight > 0
    /\ Drained(greedy_pulled)
    /\ Yielded(greedy_pulled) = <<2, 1>>

\* C27 witness of a difference: with an item of weight 0 the two drained
\* solvers have yielded the same items in different orders.
C27_WitnessDifferentOrder ==
    /\ Drained(greedy_pulled)
    /\ Len(Yielded(greedy_pulled)) = 2
    /\ Yielded(OptimalGreedyPulls(optimal_greedy_new(items, capacity),
                                  Len(greedy_pulled)))
          # Yielded(greedy_pulled)

====
